---- MODULE Spec2Model ----
(***************************************************************************)
(* Model of build-with-bun: the dependency tracker (src/src/resolve.ts)    *)
(* and the declaration synthesizer (src/src/dts.ts), driven by the         *)
(* bundler's plugin lifecycle (on-start, on-resolve, on-load, on-end).     *)
(*                                                                         *)
(* A path is a sequence of names, a name is a sequence of text pieces      *)
(* (<<"m", ".ts">> is m.ts), so that appending an extension and testing    *)
(* the extension are computed and not looked up.                           *)
(***************************************************************************)
EXTENDS Naturals, Sequences, FiniteSets, TLC

\* ------------------------------------------------------------------ bounds
\* Number of bundler passes explored (initial build plus rebuilds).
MaxPass == 2
\* Number of relative statements one synthesis may inline before the model
\* gives the loop up as not returning.
MaxInline == 6
\* Number of rebuilds explored in watch mode.
MaxRebuilds == 2
\* Number of timer handles the model tells apart.
MaxTimers == 3
\* Number of change notifications counted within one debounce window.
MaxBurst == 3
\* Number of load callbacks the bundler may deliver for one path in a pass.
MaxLoads == 2

\* ------------------------------------------------------------------- paths
Front(s) == SubSeq(s, 1, Len(s) - 1)
Last(s) == s[Len(s)]

RECURSIVE SetToSeq(_)
SetToSeq(S) ==
  IF S = {} THEN <<>>
  ELSE LET x == CHOOSE y \in S : TRUE IN <<x>> \o SetToSeq(S \ {x})

Range(s) == {s[i] : i \in 1..Len(s)}

\* node:path / pathe dirname of an absolute path.
dirname(p) == Front(p)

TS_EXTENSIONS == <<".ts", ".tsx", ".mts", ".cts">>

\* RE_TS = /\.([cm]?)tsx?$/ tested on a path: its last name ends in one of
\* the four TypeScript extensions.
RE_TS(segs) ==
  /\ Len(segs) > 0
  /\ Len(Last(segs)) > 0
  /\ Last(Last(segs)) \in {".ts", ".tsx", ".mts", ".cts"}

\* A module specifier is its leading characters (pre) and the names that
\* follow them: "./m.ts" is pre <<".", "/">> and segs << <<"m", ".ts">> >>.
\* RE_RELATIVE = /^\.\.?\//
RE_RELATIVE(spec) ==
  \/ (Len(spec.pre) >= 2 /\ spec.pre[1] = "." /\ spec.pre[2] = "/")
  \/ (Len(spec.pre) >= 3 /\ spec.pre[1] = "." /\ spec.pre[2] = "."
        /\ spec.pre[3] = "/")

isAbsolute(spec) == Len(spec.pre) >= 1 /\ spec.pre[1] = "/"

\* path.resolve(dir, specifier): "./" stays in dir, "../" goes to the parent,
\* an absolute specifier replaces dir, anything else is a name under dir that
\* starts with the leading characters.
pathResolve(dir, spec) ==
  IF spec.pre = <<".", "/">> THEN dir \o spec.segs
  ELSE IF spec.pre = <<".", ".", "/">> THEN Front(dir) \o spec.segs
  ELSE IF isAbsolute(spec) THEN spec.segs
  ELSE IF spec.pre = <<>> THEN dir \o spec.segs
  ELSE dir \o <<spec.pre \o spec.segs[1]>> \o SubSeq(spec.segs, 2, Len(spec.segs))

Specifier(pre, segs) == [pre |-> pre, segs |-> segs]
NoSpec == Specifier(<<>>, <<>>)

\* The value tryResolveTs returns for "not found" (null).
NotFound == <<>>

\* ------------------------------------------------- declaration text lines
\* One line of declaration text.  k is "stmt" for a line of the form
\* import ... from "..." / export ... from "...", "decl" for the line span
\* of one top-level declaration, "comment", "blank", or "other" (a line that
\* is neither, such as export { run };).
NoClause == [star |-> FALSE, names |-> <<>>]

Line(k, type, clause, spec, name, exported, refs) ==
  [k |-> k, type |-> type, clause |-> clause, spec |-> spec,
   name |-> name, exported |-> exported, refs |-> refs]

\* import { a, b as c } from "spec" / export { a } from "spec"
Member(n) == [name |-> n, as |-> ""]
Alias(n, a) == [name |-> n, as |-> a]
Stmt(type, names, spec) ==
  Line("stmt", type, [star |-> FALSE, names |-> names], spec, "", FALSE, {})
\* import * as x from "spec" / export * from "spec"
StarStmt(type, spec) ==
  Line("stmt", type, [star |-> TRUE, names |-> <<>>], spec, "", FALSE, {})
\* [export ]declare ... name ...: refs are the type-position identifiers.
Decl(name, exported, refs) ==
  Line("decl", "", NoClause, NoSpec, name, exported, refs)
Blank == Line("blank", "", NoClause, NoSpec, "", FALSE, {})
\* `// ${relative(cwd, modulePath)}`
PathComment(path) ==
  Line("comment", "path", NoClause, Specifier(<<>>, path), "", FALSE, {})
\* A line the parser rejects.
Garbled == Line("other", "error", NoClause, NoSpec, "", FALSE, {})
\* '// MISSING MODULE DTS'
MISSING_MODULE_DTS ==
  Line("comment", "missing", NoClause, NoSpec, "", FALSE, {})

\* ------------------------------------------------------------ the project
\* Source files of the project under build.
FA == << <<"p">>, <<"a", ".ts">> >>
FB == << <<"p">>, <<"b", ".ts">> >>
FM == << <<"p">>, <<"m", ".ts">> >>
FN == << <<"p">>, <<"lib">>, <<"n", ".ts">> >>
FH == << <<"p">>, <<"h", ".ts">> >>
FK == << <<"p">>, <<"lib">>, <<"k", ".ts">> >>
FJ == << <<"p">>, <<"j", ".js">> >>
Files == {FA, FB, FM, FN, FH, FK, FJ}

\* config.entrypoints, resolved (build.ts resolvedEntrypoints).
entrypointPaths == <<FA, FB>>
Entrypoints == Range(entrypointPaths)

Here(name) == Specifier(<<".", "/">>, <<name>>)
SubLib(name) == Specifier(<<".", "/">>, << <<"lib">>, name >>)
Package(name) == Specifier(<<>>, << <<name>> >>)
DotPackage(name) == Specifier(<<".">>, << <<name>> >>)

\* The isolated declaration the transformer yields for each file, one of a
\* few variants per file.
Templates ==
  [f \in Files |->
    CASE f = FA ->
      { <<Stmt("export", <<Member("run")>>, Here(<<"m", ".ts">>))>>,
        <<Stmt("export", <<Member("run")>>, Here(<<"m">>))>>,
        <<Stmt("import", <<Member("run"), Member("stop")>>, Here(<<"m", ".ts">>)),
          Decl("go", TRUE, {"run"})>>,
        <<StarStmt("import", Package("node:fs")),
          Stmt("export", <<Member("run")>>, Here(<<"m", ".ts">>)),
          Decl("cfg", TRUE, {"fs"})>>,
        <<Stmt("import", <<Member("Conf")>>, DotPackage("conf")),
          Decl("cfg", TRUE, {"Conf"})>>,
        <<Stmt("export", <<Alias("run", "start")>>, Here(<<"m", ".ts">>))>>,
        <<Decl("hello", TRUE, {})>> }
      [] f = FB ->
      { <<Stmt("export", <<Member("stop")>>, Here(<<"m", ".ts">>))>>,
        <<Stmt("export", <<Member("aux")>>, Here(<<"h", ".ts">>))>>,
        <<Stmt("export", <<Member("stop")>>, Here(<<"m", ".ts">>)),
          Stmt("export", <<Member("aux")>>, Here(<<"h", ".ts">>))>>,
        <<Stmt("export", <<Member("gone")>>, Here(<<"gone", ".ts">>))>>,
        <<>> }
      [] f = FM ->
      { <<Decl("run", TRUE, {}), Decl("stop", TRUE, {}),
          Decl("status", TRUE, {})>>,
        <<Decl("Opts", TRUE, {}), Decl("run", TRUE, {"Opts"}),
          Decl("stop", TRUE, {})>>,
        <<Stmt("export", <<Member("bar")>>, SubLib(<<"n", ".ts">>)),
          Decl("run", TRUE, {}), Decl("stop", TRUE, {})>>,
        <<Stmt("import", <<Member("bar")>>, SubLib(<<"n", ".ts">>)),
          Decl("run", TRUE, {"bar"}), Decl("stop", TRUE, {})>>,
        <<Stmt("export", <<Member("aux")>>, Here(<<"h", ".ts">>)),
          Decl("run", TRUE, {}), Decl("stop", TRUE, {})>> }
      [] f = FN -> { <<Decl("bar", TRUE, {})>> }
      [] f = FH ->
      { <<Decl("aux", TRUE, {})>>,
        <<Stmt("export", <<Member("run")>>, Here(<<"m", ".ts">>)),
          Decl("aux", TRUE, {})>> }
      [] f = FK -> { <<Decl("baz", TRUE, {})>> }
      [] f = FJ ->
      { <<Stmt("import", <<Member("run")>>, Here(<<"m", ".ts">>))>> } ]

\* The projects a family of texts gives: one text per file.
Project(T) ==
  {[f \in Files |->
      CASE f = FA -> a [] f = FB -> b [] f = FM -> m [] f = FN -> n
        [] f = FH -> h [] f = FK -> k [] f = FJ -> j] :
     a \in T[FA], b \in T[FB], m \in T[FM], n \in T[FN], h \in T[FH],
     k \in T[FK], j \in T[FJ]}

\* ------------------------------------------------------------------ state
VARIABLES
  content,           \* file -> its current isolated declaration (the disk)
  phase,             \* position of the bundler in the pass
  pass,              \* number of the pass (1 = initial build)
  resolvedFilesMap,  \* entrypoint -> set of files (the Dependency Map)
  fileToEntrypoint,  \* file -> owning entrypoint
  handled,           \* resolution events delivered in this pass
  loaded,            \* files the bundler has loaded in this pass
  dtsMap,            \* file -> captured declaration text
  declarationMap,    \* file -> symbol table
  typeRefsMap,       \* file -> module-level reference set
  out,               \* entrypoint -> declaration file on disk
  written,           \* entrypoints whose file this pass's on-end has written
  watcherMap,        \* the keys of watch.ts watcherMap
  opened,            \* file -> number of open FSWatchers on it
  debounceTimer,     \* the handle held by debounceTimer, 0 for null
  armed,             \* handles of the timers set and neither fired nor cleared
  pending,           \* the pending flag of rebuildFn
  inFlight,          \* number of onRebuild calls started and not yet settled
  trigger,           \* notifications of the current window, and what became
                     \* of the last timer
  refresh,           \* the watchers the last watch on-end closed and attached
  config,            \* the BuildConfig build() was called with
  effects,           \* what build() has done before the first pass
  loads,             \* file -> load callbacks delivered, awaiting their
                     \* read, and transformer runs, in this pass
  probe              \* a function under test: its input and its result

\* The state of the watch plugin.
watchVars == <<watcherMap, opened, debounceTimer, armed, pending, inFlight,
               trigger, refresh>>

\* What the passes never change.
envVars == <<config, effects, probe>>

vars == <<content, phase, pass, resolvedFilesMap, fileToEntrypoint, handled,
          loaded, dtsMap, declarationMap, typeRefsMap, out, written, watchVars,
          loads, envVars>>

\* The empty Map.
EmptyMap == [x \in {} |-> {}]
Put(m, k, v) == [x \in DOMAIN m \cup {k} |-> IF x = k THEN v ELSE m[x]]

\* ------------------------------------------------------ filename resolver
\* existsSync on a disk given as the set of the paths that exist.
existsOn(disk, path) == path \in disk
\* existsSync: every file of the project is on disk.
existsSync(path) == existsOn(Files, path)

\* `${basePath}${ext}`
WithExt(basePath, ext) == Front(basePath) \o <<Last(basePath) \o <<ext>>>>
\* pathResolve(basePath, `index${ext}`)
IndexOf(basePath, ext) == basePath \o << <<"index", ext>> >>

\* The two for loops of tryResolveTs return at the first candidate that
\* exists; falling out of both is null.
FirstExistingOn(disk, cands) ==
  IF \E i \in 1..Len(cands) : existsOn(disk, cands[i])
  THEN cands[CHOOSE i \in 1..Len(cands) :
               /\ existsOn(disk, cands[i])
               /\ \A j \in 1..(i - 1) : ~existsOn(disk, cands[j])]
  ELSE NotFound
FirstExisting(cands) == FirstExistingOn(Files, cands)

Candidates_indexFirst(basePath) ==
  [i \in 1..Len(TS_EXTENSIONS) |-> IndexOf(basePath, TS_EXTENSIONS[i])]
  \o [i \in 1..Len(TS_EXTENSIONS) |-> WithExt(basePath, TS_EXTENSIONS[i])]
\* The paths the two loops test, in the order they test them.
Candidates(basePath) ==
  [i \in 1..Len(TS_EXTENSIONS) |-> WithExt(basePath, TS_EXTENSIONS[i])]
  \o [i \in 1..Len(TS_EXTENSIONS) |-> IndexOf(basePath, TS_EXTENSIONS[i])]

tryResolveTsOn(disk, basePath) ==
  IF RE_TS(basePath)
  THEN (IF existsOn(disk, basePath) THEN basePath ELSE NotFound)
  ELSE FirstExistingOn(disk, Candidates(basePath))

tryResolveTs(basePath) == tryResolveTsOn(Files, basePath)

\* ----------------------------------------------------- dependency tracker
\* The tracker's two maps as one value.
Tracker(map, owner) == [map |-> map, owner |-> owner]

\* handleResolve with the resolved file added to the set of every entrypoint
\* that holds the importer, not to the owner's set alone.
handleResolve_everyHolder(t, importer, spec) ==
  IF importer = <<>> THEN t
  ELSE IF importer \notin DOMAIN t.owner THEN t
  ELSE
    LET entrypoint   == t.owner[importer]
        resolvedPath == tryResolveTs(IF isAbsolute(spec) THEN spec.segs
                                     ELSE pathResolve(dirname(importer), spec))
    IN IF resolvedPath = NotFound THEN t
       ELSE Tracker(
              [e \in DOMAIN t.map |->
                 IF importer \in t.map[e] THEN t.map[e] \cup {resolvedPath}
                 ELSE t.map[e]],
              IF resolvedPath \notin DOMAIN t.owner
              THEN Put(t.owner, resolvedPath, entrypoint)
              ELSE t.owner)

\* handleResolve that takes an importer without an owner as its own owner.
handleResolve_unownedImporter(t, importer, spec) ==
  IF importer = <<>> THEN t
  ELSE
    LET entrypoint   == IF importer \in DOMAIN t.owner
                        THEN t.owner[importer] ELSE importer
        basePath     == IF isAbsolute(spec) THEN spec.segs
                        ELSE pathResolve(dirname(importer), spec)
        resolvedPath == tryResolveTs(basePath)
    IN IF resolvedPath = NotFound THEN t
       ELSE Tracker(
              IF entrypoint \in DOMAIN t.map
              THEN [t.map EXCEPT ![entrypoint] = @ \cup {resolvedPath}]
              ELSE t.map,
              IF resolvedPath \notin DOMAIN t.owner
              THEN Put(t.owner, resolvedPath, entrypoint)
              ELSE t.owner)

\* handleResolve that records the importer's owner on every event.
handleResolve_lastOwner(t, importer, spec) ==
  IF importer = <<>> THEN t
  ELSE IF importer \notin DOMAIN t.owner THEN t
  ELSE
    LET entrypoint   == t.owner[importer]
        basePath     == IF isAbsolute(spec) THEN spec.segs
                        ELSE pathResolve(dirname(importer), spec)
        resolvedPath == tryResolveTs(basePath)
    IN IF resolvedPath = NotFound THEN t
       ELSE Tracker(
              IF entrypoint \in DOMAIN t.map
              THEN [t.map EXCEPT ![entrypoint] = @ \cup {resolvedPath}]
              ELSE t.map,
              Put(t.owner, resolvedPath, entrypoint))

\* handleResolve({ path, importer }); importer <<>> is the empty importer.
handleResolve(t, importer, spec) ==
  IF importer = <<>> THEN t
  ELSE IF importer \notin DOMAIN t.owner THEN t
  ELSE
    LET entrypoint   == t.owner[importer]
        basePath     == IF isAbsolute(spec) THEN spec.segs
                        ELSE pathResolve(dirname(importer), spec)
        resolvedPath == tryResolveTs(basePath)
    IN IF resolvedPath = NotFound THEN t
       ELSE Tracker(
              IF entrypoint \in DOMAIN t.map
              THEN [t.map EXCEPT ![entrypoint] = @ \cup {resolvedPath}]
              ELSE t.map,
              IF resolvedPath \notin DOMAIN t.owner
              THEN Put(t.owner, resolvedPath, entrypoint)
              ELSE t.owner)

\* The bundler offers a resolution to each registered on-resolve handler
\* whose filter matches the specifier, in registration order, as long as
\* none returns a result: handleResolve is registered under RE_TS and under
\* RE_RELATIVE and always returns undefined.
dispatchResolve(t, importer, spec) ==
  LET t1 == IF RE_TS(spec.segs) THEN handleResolve(t, importer, spec) ELSE t
  IN IF RE_RELATIVE(spec) THEN handleResolve(t1, importer, spec) ELSE t1

\* A seed whose sets lack the entrypoint itself (new Set()).
SeedMap_empty == [e \in Entrypoints |-> {}]

\* The seed the start callback leaves: every entrypoint mapped to itself.
SeedMap == [e \in Entrypoints |-> {e}]
SeedOwner == [e \in Entrypoints |-> e]

\* ------------------------------------------------- declaration synthesizer
\* DeclarationInfo; code is the line span of the declaration.
DeclarationInfo(line) ==
  [name |-> line.name, code |-> line, typeRefs |-> line.refs \ {line.name}]

\* The for loop of extractDeclarations over result.program.body: the symbol
\* table as the Map's entries in insertion order; a repeated name keeps its
\* place and takes the later value.
RECURSIVE programBody(_)
programBody(code) ==
  IF code = <<>> THEN <<>>
  ELSE
    LET before == programBody(Front(code))
        stmt   == Last(code)
    IN IF stmt.k # "decl" THEN before
       ELSE IF \E i \in 1..Len(before) : before[i].name = stmt.name
       THEN [i \in 1..Len(before) |->
               IF before[i].name = stmt.name THEN DeclarationInfo(stmt)
               ELSE before[i]]
       ELSE Append(before, DeclarationInfo(stmt))

\* result.errors of parseSync: the lines of the text that are no syntax.
parseErrors(code) ==
  {i \in 1..Len(code) : code[i].k = "other" /\ code[i].type = "error"}

\* extractDeclarations(code): the empty Map when the text has parse errors.
extractDeclarations(code) ==
  IF parseErrors(code) # {} THEN <<>> ELSE programBody(code)

\* declarations.has(name) / declarations.get(name)
HasDecl(declarations, name) ==
  \E i \in 1..Len(declarations) : declarations[i].name = name
GetDecl(declarations, name) ==
  declarations[CHOOSE i \in 1..Len(declarations) : declarations[i].name = name]

\* isRelativeImportExport that knows the parent prefix ".." only.
isRelativeImportExport_parentOnly(spec) ==
  Len(spec.pre) >= 2 /\ spec.pre[1] = "." /\ spec.pre[2] = "."

isRelativeImportExport(spec) == Len(spec.pre) >= 1 /\ spec.pre[1] = "."

\* parseImportExport(type, line): the members are the original names, the
\* alias after `as` is dropped; a clause with * is the single member "*".
parseImportExport(type, line) ==
  LET isRelative == isRelativeImportExport(line.spec)
  IN [type       |-> type,
      modulePath |-> line.spec,
      isRelative |-> isRelative,
      members    |-> IF ~isRelative THEN <<>>
                     ELSE IF line.clause.star THEN <<"*">>
                     ELSE SelectSeq(
                            [i \in 1..Len(line.clause.names) |->
                               line.clause.names[i].name],
                            LAMBDA m : m # "")]

\* The while loop of extractRequestedDts over its queue (a stack).
RECURSIVE neededMembers(_, _, _)
neededMembers(declarations, queue, needed) ==
  IF queue = <<>> THEN needed
  ELSE
    LET member == Last(queue)
        rest   == Front(queue)
    IN IF member \in needed THEN neededMembers(declarations, rest, needed)
       ELSE IF ~HasDecl(declarations, member)
       THEN neededMembers(declarations, rest, needed)
       ELSE
         LET now == needed \cup {member}
             add == {r \in GetDecl(declarations, member).typeRefs :
                       r \notin now /\ HasDecl(declarations, r)}
         IN neededMembers(declarations, rest \o SetToSeq(add), now)

\* dts.replace(/^export /i, '')
StripExport(line) == [line EXCEPT !.exported = FALSE]

\* extractRequestedDts without the walk over the reference sets.
extractRequestedDts_requestedOnly(dts, declarations, requestedMembers, type) ==
  IF "*" \in Range(requestedMembers) THEN dts
  ELSE
    LET needed == Range(requestedMembers)
        stmts  == SelectSeq(dts, LAMBDA l : l.k = "stmt")
        kept   == SelectSeq(declarations, LAMBDA d : d.name \in needed)
    IN stmts \o
       [i \in 1..Len(kept) |->
          IF kept[i].name \notin Range(requestedMembers) \/ type = "import"
          THEN StripExport(kept[i].code)
          ELSE kept[i].code]

extractRequestedDts(dts, declarations, requestedMembers, type) ==
  IF "*" \in Range(requestedMembers) THEN dts
  ELSE
    LET needed == neededMembers(declarations, requestedMembers, {})
        stmts  == SelectSeq(dts, LAMBDA l : l.k = "stmt")
        kept   == SelectSeq(declarations, LAMBDA d : d.name \in needed)
    IN stmts \o
       [i \in 1..Len(kept) |->
          IF kept[i].name \notin Range(requestedMembers) \/ type = "import"
          THEN StripExport(kept[i].code)
          ELSE kept[i].code]

\* text.split('\n') of a text held as its lines: the empty text is one
\* empty line.
split(text) == IF text = <<>> THEN <<Blank>> ELSE text

RemoveAt(s, i) == SubSeq(s, 1, i - 1) \o SubSeq(s, i + 1, Len(s))

\* The while loop of inlineModuleDtsRecursive from position i on; fuel is the
\* number of further statements it may inline.  returned is FALSE when the
\* loop is still splicing after MaxInline statements.
RECURSIVE inlineLoop(_, _, _, _, _, _, _)
inlineLoop(entrypoint, dMap, declMap, refsMap, entryDtsLines, i, fuel) ==
  IF i > Len(entryDtsLines)
  THEN [lines |-> entryDtsLines, returned |-> TRUE]
  ELSE
    LET trimmedLine == entryDtsLines[i]
        parsed == parseImportExport(trimmedLine.type, trimmedLine)
        entryTypeRefs == IF entrypoint \in DOMAIN refsMap
                         THEN refsMap[entrypoint] ELSE {}
        result == IF trimmedLine.type = "import"
                  THEN [parsed EXCEPT !.members =
                          SelectSeq(@, LAMBDA m : m \in entryTypeRefs)]
                  ELSE parsed
    IN IF trimmedLine.k # "stmt" \/ ~result.isRelative
       THEN inlineLoop(entrypoint, dMap, declMap, refsMap,
                       entryDtsLines, i + 1, fuel)
       ELSE IF fuel = 0
       THEN [lines |-> entryDtsLines, returned |-> FALSE]
       ELSE
         LET modulePath == pathResolve(dirname(entrypoint), result.modulePath)
             moduleDts  == IF modulePath \in DOMAIN dMap /\ dMap[modulePath] # <<>>
                           THEN dMap[modulePath]
                           ELSE <<MISSING_MODULE_DTS>>
             filteredDts ==
               IF modulePath \in DOMAIN declMap
               THEN extractRequestedDts(moduleDts, declMap[modulePath],
                                        result.members, result.type)
               ELSE moduleDts
         IN inlineLoop(entrypoint, dMap, declMap, refsMap,
                       RemoveAt(entryDtsLines, i)
                         \o <<Blank, PathComment(modulePath)>>
                         \o split(filteredDts),
                       i, fuel - 1)

\* inlineModuleDtsRecursive that starts from the text of every captured
\* entrypoint and not from the text of its own entrypoint alone.
inlineModuleDtsRecursive_allEntries(entrypoint, dMap, declMap, refsMap) ==
  IF entrypoint \notin DOMAIN dMap \/ dMap[entrypoint] = <<>>
  THEN [lines |-> <<>>, returned |-> TRUE]
  ELSE inlineLoop(entrypoint, dMap, declMap, refsMap,
                  SelectSeq(dMap[entrypointPaths[1]] \o dMap[entrypoint],
                            LAMBDA l : l.k # "blank"),
                  1, MaxInline)

inlineModuleDtsRecursive(entrypoint, dMap, declMap, refsMap) ==
  IF entrypoint \notin DOMAIN dMap \/ dMap[entrypoint] = <<>>
  THEN [lines |-> <<>>, returned |-> TRUE]
  ELSE inlineLoop(entrypoint, dMap, declMap, refsMap,
                  SelectSeq(dMap[entrypoint], LAMBDA l : l.k # "blank"),
                  1, MaxInline)

\* String.prototype.trim on the joined text: no blank line at either end.
RECURSIVE trim(_)
trim(lines) ==
  IF lines = <<>> THEN lines
  ELSE IF lines[1].k = "blank" THEN trim(Tail(lines))
  ELSE IF Last(lines).k = "blank" THEN trim(Front(lines))
  ELSE lines

\* ---------------------------------------------------------- the bundler
\* The specifiers of the import/export-from statements of a file.
Imports(f) ==
  {content[f][i].spec : i \in {j \in 1..Len(content[f]) : content[f][j].k = "stmt"}}

\* The file the bundler loads for a specifier: packages are external
\* (build.ts packages = 'external'), a relative or absolute specifier is the
\* file it names, whatever its extension.
BundlerTarget(f, spec) ==
  IF RE_RELATIVE(spec) \/ isAbsolute(spec)
  THEN (IF existsSync(pathResolve(dirname(f), spec))
        THEN pathResolve(dirname(f), spec)
        ELSE tryResolveTs(pathResolve(dirname(f), spec)))
  ELSE NotFound

\* The union of the entrypoints' sets (resolvedModules).
resolvedModules == UNION {resolvedFilesMap[e] : e \in DOMAIN resolvedFilesMap}

\* BuildConfig: the entrypoints as given, whether outdir is set, and clean.
Config(entrypoints, outdir, clean) ==
  [entrypoints |-> entrypoints, outdir |-> outdir, clean |-> clean]
\* The configuration of a project whose entrypoints are files, with an
\* output directory and the default clean = true.
DefaultConfig == Config(entrypointPaths, TRUE, TRUE)
\* No error thrown.
NoError == <<>>
\* What build() has done: removed the output directory, the plugins it
\* handed to the bundler, whether it called Bun.build, the error it threw.
Effects(cleaned, plugins, bundler, error) ==
  [cleaned |-> cleaned, plugins |-> plugins, bundler |-> bundler,
   error |-> error]
\* bunConfig.plugins with dts and watch enabled: pushed in this order.
PluginOrder == <<"resolve", "dts", "watch">>
\* Per file, in this pass: the load callbacks invoked (delivered), those
\* that passed the cache test and await the file's text (reading), and the
\* times the file was read for the transformer (reads).  None yet.
NoLoads == [f \in Files |-> [delivered |-> 0, reading |-> 0, reads |-> 0]]
\* No function under test.
NoProbe == [fn |-> "none"]

\* dts.setup without its test of outdir.
dtsHandlers_always == {"onStart", "onLoad", "onEnd"}

\* dts.setup returns before it registers anything when outdir is not set.
dtsHandlers ==
  IF config.outdir THEN {"onStart", "onLoad", "onEnd"} ELSE {}

\* The closures of the plugins as their factories create them, before any
\* callback has run.
Fresh ==
  /\ pass = 1
  /\ resolvedFilesMap = EmptyMap
  /\ fileToEntrypoint = EmptyMap
  /\ handled = {}
  /\ loaded = {}
  /\ dtsMap = EmptyMap
  /\ declarationMap = EmptyMap
  /\ typeRefsMap = EmptyMap
  /\ out = EmptyMap
  /\ written = {}
  /\ watcherMap = {}
  /\ opened = [f \in Files |-> 0]
  /\ debounceTimer = 0
  /\ armed = {}
  /\ pending = FALSE
  /\ inFlight = 0
  /\ trigger = [burst |-> 0, outcome |-> "none", path |-> <<>>]
  /\ refresh = [closed |-> {}, attached |-> {}]
  /\ loads = NoLoads
  /\ probe = NoProbe

\* The state build() leaves when it calls the bundler for the first time:
\* the output directory is removed, the plugins are constructed and nothing
\* has run.
Constructed ==
  /\ phase = "idle"
  /\ Fresh
  /\ config = DefaultConfig
  /\ effects = Effects(config.outdir /\ config.clean, PluginOrder, TRUE, NoError)

Init ==
  /\ content \in Project(Templates)
  /\ Constructed

\* The start callback without its two clear() calls.
ResolveOnStart_noClear ==
  /\ phase = "idle"
  /\ resolvedFilesMap' =
       [e \in DOMAIN resolvedFilesMap \cup Entrypoints |->
          IF e \in Entrypoints THEN {e} ELSE resolvedFilesMap[e]]
  /\ fileToEntrypoint' =
       [f \in DOMAIN fileToEntrypoint \cup Entrypoints |->
          IF f \in Entrypoints THEN f ELSE fileToEntrypoint[f]]
  /\ phase' = "started"
  /\ UNCHANGED <<envVars, loads,
                 content, pass, handled, loaded, dtsMap, declarationMap,
                 typeRefsMap, out, written, watchVars>>

\* resolve: builder.onStart
ResolveOnStart ==
  /\ phase = "idle"
  /\ resolvedFilesMap' = SeedMap
  /\ fileToEntrypoint' = SeedOwner
  /\ phase' = "started"
  /\ UNCHANGED <<envVars, loads,
                 content, pass, handled, loaded, dtsMap, declarationMap,
                 typeRefsMap, out, written, watchVars>>

\* dts: builder.onStart
DtsOnStart ==
  /\ phase = "started"
  /\ IF "onStart" \in dtsHandlers
     THEN /\ dtsMap' = EmptyMap
          /\ declarationMap' = EmptyMap
          /\ typeRefsMap' = EmptyMap
     ELSE UNCHANGED <<dtsMap, declarationMap, typeRefsMap>>
  /\ phase' = "bundling"
  /\ UNCHANGED <<envVars, loads,
                 content, pass, resolvedFilesMap, fileToEntrypoint, handled,
                 loaded, out, written, watchVars>>

\* resolve: builder.onResolve, for one import of a file the bundler parsed.
OnResolve(f, spec) ==
  /\ phase = "bundling"
  /\ f \in loaded
  /\ spec \in Imports(f)
  /\ <<f, spec>> \notin handled
  /\ LET t == dispatchResolve(Tracker(resolvedFilesMap, fileToEntrypoint), f, spec)
     IN /\ resolvedFilesMap' = t.map
        /\ fileToEntrypoint' = t.owner
  /\ handled' = handled \cup {<<f, spec>>}
  /\ UNCHANGED <<envVars, loads, content, phase, pass, loaded, dtsMap, declarationMap,
                 typeRefsMap, out, written, watchVars>>

\* The bundler loads f in this pass: an entrypoint, or the target of a
\* resolution already delivered.
Loadable(f) ==
  \/ f \in Entrypoints
  \/ \E ev \in handled : BundlerTarget(ev[1], ev[2]) = f

\* 1 when the bundler invokes the load callback for f, 0 when it does not.
Delivered(f) == IF "onLoad" \in dtsHandlers /\ RE_TS(f) THEN 1 ELSE 0

\* The load callback returns at once: it is not registered, the path does
\* not match its filter RE_TS, the file is no entrypoint and no resolved
\* module, or the path is captured already.
LoadSkips(f) ==
  \/ "onLoad" \notin dtsHandlers
  \/ ~RE_TS(f)
  \/ (f \notin Entrypoints /\ f \notin resolvedModules)
  \/ f \in DOMAIN dtsMap

\* dts: builder.onLoad, for a file the bundler loads once in the pass; no
\* other callback runs between its test of the cache and its writes.
OnLoad(f) ==
  /\ phase = "bundling"
  /\ f \notin loaded
  /\ Loadable(f)
  /\ loaded' = loaded \cup {f}
  /\ IF LoadSkips(f)
     THEN /\ UNCHANGED <<dtsMap, declarationMap, typeRefsMap>>
          /\ loads' = [loads EXCEPT ![f].delivered = @ + Delivered(f)]
     ELSE /\ dtsMap' = Put(dtsMap, f, content[f])
          /\ declarationMap' = Put(declarationMap, f, extractDeclarations(content[f]))
          \* typeRefsMap.get(argsPath)?.union(...) builds a new Set that is
          \* dropped; the Set stored stays empty.
          /\ typeRefsMap' = Put(typeRefsMap, f, {})
          /\ loads' = [loads EXCEPT ![f].delivered = @ + 1, ![f].reads = @ + 1]
  /\ UNCHANGED <<envVars,
                 content, phase, pass, resolvedFilesMap, fileToEntrypoint,
                 handled, out, written, watchVars>>

\* The pass has nothing left to resolve or load.
Settled ==
  /\ Entrypoints \subseteq loaded
  /\ \A f \in loaded : \A spec \in Imports(f) :
        /\ <<f, spec>> \in handled
        /\ BundlerTarget(f, spec) # NotFound => BundlerTarget(f, spec) \in loaded

\* The for loop of the on-end callback from entrypoint number k on: the
\* files written, and whether the callback returned.
RECURSIVE writeAll(_, _)
writeAll(k, files) ==
  IF k > Len(entrypointPaths)
  THEN [out |-> files, count |-> k - 1, returned |-> TRUE]
  ELSE
    LET entrypoint == entrypointPaths[k]
        r == inlineModuleDtsRecursive(entrypoint, dtsMap, declarationMap, typeRefsMap)
    IN IF ~r.returned THEN [out |-> files, count |-> k - 1, returned |-> FALSE]
       ELSE writeAll(k + 1, Put(files, entrypoint, trim(r.lines)))

\* dts: builder.onEnd
OnEnd ==
  /\ phase = "bundling"
  /\ Settled
  /\ IF "onEnd" \in dtsHandlers
     THEN LET w == writeAll(1, out)
          IN /\ out' = w.out
             /\ written' = {entrypointPaths[k] : k \in 1..w.count}
             /\ phase' = IF w.returned THEN "done" ELSE "hung"
     ELSE /\ UNCHANGED <<out, written>>
          /\ phase' = "done"
  /\ UNCHANGED <<envVars, loads,
                 content, pass, resolvedFilesMap, fileToEntrypoint, handled,
                 loaded, dtsMap, declarationMap, typeRefsMap, watchVars>>

\* Watch mode: a source file was saved and onRebuild calls Bun.build again.
Rebuild(f, text) ==
  /\ phase = "done"
  /\ pass < MaxPass
  /\ text \in Templates[f]
  /\ content' = [content EXCEPT ![f] = text]
  /\ pass' = pass + 1
  /\ phase' = "idle"
  /\ handled' = {}
  /\ loaded' = {}
  /\ written' = {}
  /\ loads' = NoLoads
  /\ UNCHANGED <<envVars,
                 resolvedFilesMap, fileToEntrypoint, dtsMap, declarationMap,
                 typeRefsMap, out, watchVars>>

\* ------------------------------------------------------- the watch plugin
\* The texts the watch plugin is explored over: the plugin reads the union
\* of the entrypoints' sets only, so one text per import shape is enough.
WatchTemplates ==
  [f \in Files |->
    CASE f = FA ->
      { <<Stmt("export", <<Member("run")>>, Here(<<"m", ".ts">>))>>,
        <<Decl("hello", TRUE, {})>> }
      [] f = FB ->
      { <<Stmt("export", <<Member("stop")>>, Here(<<"m", ".ts">>))>>,
        <<Stmt("export", <<Member("aux")>>, Here(<<"h", ".ts">>))>>,
        <<Stmt("export", <<Member("gone")>>, Here(<<"gone", ".ts">>))>> }
      [] f = FM ->
      { <<Decl("run", TRUE, {}), Decl("stop", TRUE, {}),
          Decl("status", TRUE, {})>>,
        <<Stmt("import", <<Member("bar")>>, SubLib(<<"n", ".ts">>)),
          Decl("run", TRUE, {"bar"}), Decl("stop", TRUE, {})>> }
      [] f = FN -> { <<Decl("bar", TRUE, {})>> }
      [] f = FH -> { <<Decl("aux", TRUE, {})>> }
      [] f = FK -> Templates[FK]
      [] f = FJ -> Templates[FJ] ]

WatchInit ==
  /\ content \in Project(WatchTemplates)
  /\ Constructed

\* BuildOutput.success of the pass: the bundler fails a pass in which a
\* relative import of a loaded file names no file.
BuildSucceeds ==
  \A f \in loaded : \A spec \in Imports(f) :
     (RE_RELATIVE(spec) \/ isAbsolute(spec)) => BundlerTarget(f, spec) # NotFound

TimerIds == 1..MaxTimers

\* The handle setTimeout returns: one that no live timer and not the
\* variable debounceTimer holds.
NewTimer(live) == CHOOSE t \in TimerIds \ live : \A u \in TimerIds \ live : t <= u

\* watch on-end that attaches the watchers of new modules and closes none.
WatchOnEnd_noCleanup ==
  /\ phase = "done"
  /\ LET attached == {f \in resolvedModules : f \notin watcherMap}
     IN /\ watcherMap' = watcherMap \cup attached
        /\ opened' = [f \in Files |->
                        IF f \in attached THEN opened[f] + 1 ELSE opened[f]]
        /\ refresh' = [closed |-> {}, attached |-> attached]
  /\ phase' = "watching"
  /\ UNCHANGED <<envVars, loads,
                 content, pass, resolvedFilesMap, fileToEntrypoint, handled,
                 loaded, dtsMap, declarationMap, typeRefsMap, out, written,
                 debounceTimer, armed, pending, inFlight, trigger>>

\* watch: builder.onEnd (test mode off).  The callback takes no result
\* argument: it runs the same way after a failed pass.
WatchOnEnd ==
  /\ phase = "done"
  /\ LET closed   == {m \in watcherMap : m \notin resolvedModules}
         kept     == watcherMap \ closed
         attached == {f \in resolvedModules : f \notin kept}
     IN /\ watcherMap' = kept \cup attached
        /\ opened' = [f \in Files |->
                        IF f \in closed THEN opened[f] - 1
                        ELSE IF f \in attached THEN opened[f] + 1
                        ELSE opened[f]]
        /\ refresh' = [closed |-> closed, attached |-> attached]
  /\ phase' = "watching"
  /\ UNCHANGED <<envVars, loads,
                 content, pass, resolvedFilesMap, fileToEntrypoint, handled,
                 loaded, dtsMap, declarationMap, typeRefsMap, out, written,
                 debounceTimer, armed, pending, inFlight, trigger>>

\* The fs.watch listener that sets a new timer and leaves the old one armed.
Notify_noClear(f, named) ==
  /\ opened[f] > 0
  /\ armed = {} \/ trigger.burst < MaxBurst
  /\ TimerIds \ (armed \cup {debounceTimer}) # {}
  /\ IF ~named THEN UNCHANGED vars
     ELSE LET t == NewTimer(armed \cup {debounceTimer})
          IN /\ armed' = armed \cup {t}
             /\ debounceTimer' = t
             /\ trigger' = [burst |-> IF armed = {} THEN 1 ELSE trigger.burst + 1,
                            outcome |-> "armed", path |-> f]
             /\ UNCHANGED <<envVars, loads, content, phase, pass, resolvedFilesMap,
                            fileToEntrypoint, handled, loaded, dtsMap,
                            declarationMap, typeRefsMap, out, written,
                            watcherMap, opened, pending, inFlight, refresh>>

\* The fs.watch listener of the open watcher on f; named is FALSE when the
\* event carries no filename.
Notify(f, named) ==
  /\ opened[f] > 0
  /\ armed = {} \/ trigger.burst < MaxBurst
  /\ TimerIds \ (armed \cup {debounceTimer}) # {}
  /\ IF ~named THEN UNCHANGED vars
     ELSE LET t == NewTimer(armed \cup {debounceTimer})
          IN /\ armed' = (armed \ {debounceTimer}) \cup {t}
             /\ debounceTimer' = t
             /\ trigger' = [burst |-> IF armed = {} THEN 1 ELSE trigger.burst + 1,
                            outcome |-> "armed", path |-> f]
             /\ UNCHANGED <<envVars, loads, content, phase, pass, resolvedFilesMap,
                            fileToEntrypoint, handled, loaded, dtsMap,
                            declarationMap, typeRefsMap, out, written,
                            watcherMap, opened, pending, inFlight, refresh>>

\* The timer callback with a rebuildFn that does not test the pending flag.
WatchRebuild_noPendingCheck(t, f, text) ==
  /\ t \in armed
  /\ pass <= MaxRebuilds
  /\ text \in WatchTemplates[f]
  /\ armed' = armed \ {t}
  /\ pending' = TRUE
  /\ inFlight' = inFlight + 1
  /\ trigger' = [trigger EXCEPT !.outcome = "invoked"]
  /\ content' = [content EXCEPT ![f] = text]
  /\ pass' = pass + 1
  /\ phase' = "idle"
  /\ handled' = {}
  /\ loaded' = {}
  /\ written' = {}
  /\ loads' = NoLoads
  /\ UNCHANGED <<envVars,
                 resolvedFilesMap, fileToEntrypoint, dtsMap, declarationMap,
                 typeRefsMap, out, watcherMap, opened, debounceTimer, refresh>>

\* The timer callback with a rebuildFn that tests the pending flag and
\* never sets it.
WatchRebuild_pendingNotSet(t, f, text) ==
  /\ t \in armed
  /\ ~pending
  /\ pass <= MaxRebuilds
  /\ text \in WatchTemplates[f]
  /\ armed' = armed \ {t}
  /\ pending' = FALSE
  /\ inFlight' = inFlight + 1
  /\ trigger' = [trigger EXCEPT !.outcome = "invoked"]
  /\ content' = [content EXCEPT ![f] = text]
  /\ pass' = pass + 1
  /\ phase' = "idle"
  /\ handled' = {}
  /\ loaded' = {}
  /\ written' = {}
  /\ loads' = NoLoads
  /\ UNCHANGED <<envVars,
                 resolvedFilesMap, fileToEntrypoint, dtsMap, declarationMap,
                 typeRefsMap, out, watcherMap, opened, debounceTimer, refresh>>

\* The timer callback, rebuildFn finding pending false: onRebuild calls the
\* bundler again, which reads the files as they are now (f was saved as
\* text since the last pass).
WatchRebuild(t, f, text) ==
  /\ t \in armed
  /\ ~pending
  /\ pass <= MaxRebuilds
  /\ text \in WatchTemplates[f]
  /\ armed' = armed \ {t}
  /\ pending' = TRUE
  /\ inFlight' = inFlight + 1
  /\ trigger' = [trigger EXCEPT !.outcome = "invoked"]
  /\ content' = [content EXCEPT ![f] = text]
  /\ pass' = pass + 1
  /\ phase' = "idle"
  /\ handled' = {}
  /\ loaded' = {}
  /\ written' = {}
  /\ loads' = NoLoads
  /\ UNCHANGED <<envVars,
                 resolvedFilesMap, fileToEntrypoint, dtsMap, declarationMap,
                 typeRefsMap, out, watcherMap, opened, debounceTimer, refresh>>

\* The timer callback, rebuildFn finding pending true: it returns.
DropTrigger(t) ==
  /\ t \in armed
  /\ pending
  /\ armed' = armed \ {t}
  /\ trigger' = [trigger EXCEPT !.outcome = "dropped"]
  /\ UNCHANGED <<envVars, loads,
                 content, phase, pass, resolvedFilesMap, fileToEntrypoint,
                 handled, loaded, dtsMap, declarationMap, typeRefsMap, out,
                 written, watcherMap, opened, debounceTimer, pending,
                 inFlight, refresh>>

\* The bundler call settles after the on-end callbacks.  In the first pass
\* it settles into build(); in a rebuild it settles into onRebuild, and
\* rebuildFn clears pending when onRebuild resolves.  A failed pass either
\* resolves with success false or rejects, depending on the bundler's
\* throw setting; a rejection leaves rebuildFn before pending = false.
Settle(rejects) ==
  /\ phase = "watching"
  /\ rejects => ~BuildSucceeds
  /\ phase' = "resting"
  /\ pending' = IF pass > 1 /\ ~rejects THEN FALSE ELSE pending
  /\ inFlight' = IF pass > 1 THEN inFlight - 1 ELSE inFlight
  /\ UNCHANGED <<envVars, loads,
                 content, pass, resolvedFilesMap, fileToEntrypoint, handled,
                 loaded, dtsMap, declarationMap, typeRefsMap, out, written,
                 watcherMap, opened, debounceTimer, armed, trigger, refresh>>

Next ==
  \/ ResolveOnStart
  \/ DtsOnStart
  \/ \E f \in Files : \E spec \in Imports(f) : OnResolve(f, spec)
  \/ \E f \in Files : OnLoad(f)
  \/ OnEnd
  \/ \E f \in Files : \E text \in Templates[f] : Rebuild(f, text)

Spec == Init /\ [][Next]_vars

\* The build in watch mode, with the watch plugin registered after the
\* tracker and the synthesizer.
WatchNext ==
  \/ ResolveOnStart
  \/ DtsOnStart
  \/ \E f \in Files : \E spec \in Imports(f) : OnResolve(f, spec)
  \/ \E f \in Files : OnLoad(f)
  \/ OnEnd
  \/ WatchOnEnd
  \/ \E f \in Files : \E named \in BOOLEAN : Notify(f, named)
  \/ \E t \in TimerIds : \E f \in Files : \E text \in WatchTemplates[f] :
        WatchRebuild(t, f, text)
  \/ \E t \in TimerIds : DropTrigger(t)
  \/ \E rejects \in BOOLEAN : Settle(rejects)

WatchSpec == WatchInit /\ [][WatchNext]_vars

\* ------------------------------------------------ build() from its call
\* Paths a configuration may list that are no file: a path that does not
\* exist, and a directory.
Gone == << <<"p">>, <<"gone", ".ts">> >>
Dir == << <<"p">>, <<"lib">> >>

\* statSync(path).isDirectory(): the path is a proper prefix of a file's.
isDirectory(path) ==
  \E f \in Files : Len(f) > Len(path) /\ SubSeq(f, 1, Len(path)) = path
\* existsSync(entry) of the validation loop: files and directories exist.
onDisk(path) == existsSync(path) \/ isDirectory(path)

\* new Error(`Entrypoint file not found: ${entry}`)
EntrypointNotFound(entry) ==
  [message |-> "Entrypoint file not found: ", entry |-> entry]

\* The entries the validation loop throws on, by position.
Invalid(entrypoints) ==
  {i \in 1..Len(entrypoints) :
     ~onDisk(entrypoints[i]) \/ isDirectory(entrypoints[i])}
FirstInvalid(entrypoints) ==
  entrypoints[CHOOSE i \in Invalid(entrypoints) :
                \A j \in Invalid(entrypoints) : i <= j]

Abs(path) == Specifier(<<"/">>, path)
Bare(path) == Specifier(<<>>, path)

\* The texts build() is explored over from its call: a wildcard import, a
\* wildcard re-export, a re-export from a module in lib/ that re-exports
\* from its own sibling, a bare and an absolute specifier that end in .ts,
\* an import of a JavaScript file, an import of a file that does not exist,
\* a named re-export from a module whose declaration text does not parse,
\* two re-exports from one module whose reference closures overlap.
EdgeTemplates ==
  [f \in Files |->
    CASE f = FA ->
      { <<StarStmt("import", Here(<<"m", ".ts">>)),
          StarStmt("import", Package("node:fs")),
          Decl("go", TRUE, {"ns"})>>,
        <<StarStmt("export", Here(<<"m", ".ts">>))>>,
        <<Stmt("export", <<Member("bar")>>, SubLib(<<"n", ".ts">>))>>,
        <<Stmt("import", <<Member("bar")>>, Bare(<< <<"lib">>, <<"n", ".ts">> >>)),
          Decl("go", TRUE, {"bar"})>>,
        <<Stmt("import", <<Member("aux")>>, Abs(FH)),
          Decl("go", TRUE, {"aux"})>>,
        <<Stmt("export", <<Member("run")>>, Here(<<"m", ".ts">>))>>,
        <<Stmt("export", <<Member("run")>>, Here(<<"m", ".ts">>)),
          Stmt("export", <<Member("Opts")>>, Here(<<"m", ".ts">>))>> }
      [] f = FB ->
      { <<Stmt("import", <<Member("run")>>, Here(<<"j", ".js">>)),
          Stmt("export", <<Member("gone")>>, Here(<<"gone", ".ts">>))>>,
        <<Decl("world", TRUE, {})>> }
      [] f = FM ->
      { <<Decl("run", TRUE, {"Opts"}), Decl("Opts", FALSE, {})>>,
        <<Decl("run", TRUE, {}), Garbled>> }
      [] f = FN ->
      { <<Stmt("export", <<Member("baz")>>, Here(<<"k", ".ts">>)),
          Decl("bar", TRUE, {})>> }
      [] f = FH -> { <<Decl("aux", TRUE, {})>> }
      [] f = FK -> { <<Decl("baz", TRUE, {})>> }
      [] f = FJ -> { <<Stmt("import", <<Member("run")>>, Here(<<"m", ".ts">>))>> }]

\* The configurations build() is called with: the default one, one without
\* outdir, and three that list a missing path or a directory.
EdgeConfigs ==
  { DefaultConfig,
    Config(entrypointPaths, FALSE, TRUE),
    Config(<<FA, Gone>>, TRUE, TRUE),
    Config(<<Dir, FB>>, TRUE, TRUE),
    Config(<<Gone, Dir>>, TRUE, TRUE) }

\* build(config) has been called and has run nothing yet.
EdgeInit ==
  /\ content \in Project(EdgeTemplates)
  /\ phase = "called"
  /\ Fresh
  /\ config \in EdgeConfigs
  /\ effects = Effects(FALSE, <<>>, FALSE, NoError)

\* build() with rmSync moved above the validation loop.
Build_cleansFirst ==
  /\ phase = "called"
  /\ IF Invalid(config.entrypoints) # {}
     THEN /\ effects' = Effects(config.outdir /\ config.clean, <<>>, FALSE,
                                EntrypointNotFound(FirstInvalid(config.entrypoints)))
          /\ phase' = "rejected"
     ELSE /\ effects' = Effects(config.outdir /\ config.clean, PluginOrder,
                                TRUE, NoError)
          /\ phase' = "idle"
  /\ UNCHANGED <<config, probe, loads, content, pass, resolvedFilesMap,
                 fileToEntrypoint, handled, loaded, dtsMap, declarationMap,
                 typeRefsMap, out, written, watchVars>>

\* build() up to its call of Bun.build: the validation loop throws at the
\* first entry that is missing or a directory; otherwise the output
\* directory is removed, the plugins are pushed and the bundler is called.
Build ==
  /\ phase = "called"
  /\ IF Invalid(config.entrypoints) # {}
     THEN /\ effects' = Effects(FALSE, <<>>, FALSE,
                                EntrypointNotFound(FirstInvalid(config.entrypoints)))
          /\ phase' = "rejected"
     ELSE /\ effects' = Effects(config.outdir /\ config.clean, PluginOrder,
                                TRUE, NoError)
          /\ phase' = "idle"
  /\ UNCHANGED <<config, probe, loads, content, pass, resolvedFilesMap,
                 fileToEntrypoint, handled, loaded, dtsMap, declarationMap,
                 typeRefsMap, out, written, watchVars>>

\* resolve: builder.onResolve for an entrypoint itself: the specifier is
\* the entrypoint's path and the importer is empty.
OnResolveEntry(e) ==
  /\ phase = "bundling"
  /\ e \in Entrypoints
  /\ << <<>>, Abs(e) >> \notin handled
  /\ LET t == dispatchResolve(Tracker(resolvedFilesMap, fileToEntrypoint),
                              <<>>, Abs(e))
     IN /\ resolvedFilesMap' = t.map
        /\ fileToEntrypoint' = t.owner
  /\ handled' = handled \cup {<< <<>>, Abs(e) >>}
  /\ UNCHANGED <<envVars, loads, content, phase, pass, loaded, dtsMap,
                 declarationMap, typeRefsMap, out, written, watchVars>>

\* Watch mode: a source file was saved and onRebuild calls Bun.build again.
EdgeRebuild(f, text) ==
  /\ phase = "done"
  /\ pass < MaxPass
  /\ text \in EdgeTemplates[f]
  /\ content' = [content EXCEPT ![f] = text]
  /\ pass' = pass + 1
  /\ phase' = "idle"
  /\ handled' = {}
  /\ loaded' = {}
  /\ written' = {}
  /\ loads' = NoLoads
  /\ UNCHANGED <<envVars, resolvedFilesMap, fileToEntrypoint, dtsMap,
                 declarationMap, typeRefsMap, out, watchVars>>

EdgeNext ==
  \/ Build
  \/ ResolveOnStart
  \/ DtsOnStart
  \/ \E e \in Entrypoints : OnResolveEntry(e)
  \/ \E f \in Files : \E spec \in Imports(f) : OnResolve(f, spec)
  \/ \E f \in Files : OnLoad(f)
  \/ OnEnd
  \/ \E f \in Files : \E text \in EdgeTemplates[f] : EdgeRebuild(f, text)

EdgeSpec == EdgeInit /\ [][EdgeNext]_vars

\* ------------------------------------ the load callback in its two halves
LoadInit ==
  /\ content \in Project(WatchTemplates)
  /\ Constructed

\* dts: builder.onLoad up to its await: the callback returns at once, or it
\* has passed the test of dtsMap and waits for Bun.file(argsPath).text().
OnLoadBegin(f) ==
  /\ phase = "bundling"
  /\ Loadable(f)
  /\ loads[f].delivered < MaxLoads
  /\ IF LoadSkips(f)
     THEN /\ loads' = [loads EXCEPT ![f].delivered = @ + 1]
          /\ loaded' = loaded \cup {f}
     ELSE /\ loads' = [loads EXCEPT ![f].delivered = @ + 1,
                                    ![f].reading = @ + 1,
                                    ![f].reads = @ + 1]
          /\ UNCHANGED loaded
  /\ UNCHANGED <<envVars, content, phase, pass, resolvedFilesMap,
                 fileToEntrypoint, handled, dtsMap, declarationMap,
                 typeRefsMap, out, written, watchVars>>

\* dts: builder.onLoad from its await on: the text is transformed and the
\* three maps are set; the bundler then parses the file.
OnLoadFinish(f) ==
  /\ phase = "bundling"
  /\ loads[f].reading > 0
  /\ dtsMap' = Put(dtsMap, f, content[f])
  /\ declarationMap' = Put(declarationMap, f, extractDeclarations(content[f]))
  /\ typeRefsMap' = Put(typeRefsMap, f, {})
  /\ loads' = [loads EXCEPT ![f].reading = @ - 1]
  /\ loaded' = loaded \cup {f}
  /\ UNCHANGED <<envVars, content, phase, pass, resolvedFilesMap,
                 fileToEntrypoint, handled, out, written, watchVars>>

\* dts: builder.onEnd, once no load callback is waiting.
LoadOnEnd ==
  /\ \A f \in Files : loads[f].reading = 0
  /\ OnEnd

LoadNext ==
  \/ ResolveOnStart
  \/ DtsOnStart
  \/ \E f \in Files : \E spec \in Imports(f) : OnResolve(f, spec)
  \/ \E f \in Files : OnLoadBegin(f)
  \/ \E f \in Files : OnLoadFinish(f)
  \/ LoadOnEnd

LoadSpec == LoadInit /\ [][LoadNext]_vars

\* --------------------------------------------- the functions on their own
\* A call of tryResolveTs that has not returned yet, on a disk.
ResolveCall(disk, basePath) ==
  [fn |-> "tryResolveTs", disk |-> disk, basePath |-> basePath,
   returned |-> FALSE, result |-> NotFound]

\* The base paths tryResolveTs is called with: without an extension, with a
\* TypeScript extension, with another extension.
BasePaths ==
  { << <<"p">>, <<"x">> >>, << <<"p">>, <<"x", ".ts">> >>,
    << <<"p">>, <<"x", ".js">> >> }
\* The paths that may exist on the disk: every candidate of the
\* extensionless base path, and one path no candidate list holds.
DiskPaths ==
  Range(Candidates(<< <<"p">>, <<"x">> >>))
    \cup { << <<"p">>, <<"x", ".js", ".ts">> >>, << <<"p">>, <<"y", ".ts">> >> }

ResolveCalls ==
  {ResolveCall(disk, basePath) : disk \in SUBSET DiskPaths, basePath \in BasePaths}

\* A call of extractRequestedDts on a module's text and its symbol table,
\* not returned yet.
ExtractCall(dts, requestedMembers, type) ==
  [fn |-> "extractRequestedDts", dts |-> dts,
   requestedMembers |-> requestedMembers, type |-> type,
   returned |-> FALSE, result |-> <<>>]

\* Module texts of three declarations whose references may form the cycles
\* A -> B -> A and A -> B -> C -> A, and may name Z, which no text declares.
ModuleTexts ==
  {<<Decl("A", TRUE, ra), Decl("B", TRUE, rb), Decl("C", FALSE, rc)>> :
     ra \in SUBSET {"B", "Z"}, rb \in SUBSET {"A", "C"}, rc \in SUBSET {"A", "Z"}}

\* The requests: up to two names out of A, B, C and the undeclared Z.
Requests ==
  {<<>>} \cup {<<x>> : x \in {"A", "B", "C", "Z"}}
         \cup {<<x, y>> : x, y \in {"A", "B", "C", "Z"}}

ExtractCalls ==
  {ExtractCall(dts, req, type) :
     dts \in ModuleTexts, req \in Requests, type \in {"import", "export"}}

\* utils: extractCommonAncestor(paths), on absolute paths.
extractCommonAncestor(paths) ==
  IF Len(paths) = 0 THEN <<>>
  ELSE IF Len(paths) = 1 THEN dirname(paths[1])
  ELSE LET lengths == {Len(paths[i]) : i \in 1..Len(paths)}
           minLength == CHOOSE n \in lengths : \A m \in lengths : n <= m
           agree(k) == \A j \in 1..k : \A i \in 1..Len(paths) :
                         paths[i][j] = paths[1][j]
           n == CHOOSE k \in 0..minLength :
                  agree(k) /\ (k = minLength \/ ~agree(k + 1))
       IN SubSeq(paths[1], 1, n)

\* pathe relative(from, to) of two absolute paths: one ".." for each name
\* of `from` below the common ancestor, then the rest of `to`.
relative(from, to) ==
  LET shorter == IF Len(from) <= Len(to) THEN Len(from) ELSE Len(to)
      agree(k) == \A j \in 1..k : from[j] = to[j]
      n == CHOOSE k \in 0..shorter : agree(k) /\ (k = shorter \/ ~agree(k + 1))
  IN [i \in 1..(Len(from) - n) |-> <<"..">>] \o SubSeq(to, n + 1, Len(to))

\* pathe join(base, rel), normalised: ".." removes the name before it, and
\* nothing at the file system root.
RECURSIVE join(_, _)
join(base, rel) ==
  IF rel = <<>> THEN base
  ELSE IF Head(rel) = <<"..">>
       THEN join(IF base = <<>> THEN <<>> ELSE Front(base), Tail(rel))
       ELSE join(Append(base, Head(rel)), Tail(rel))

\* dts: entrypoint.replace(RE_TS, '.d.ts')
outFile(entrypoint) ==
  IF RE_TS(entrypoint)
  THEN Append(Front(entrypoint), Append(Front(Last(entrypoint)), ".d.ts"))
  ELSE entrypoint

\* dts on-end: join(outPath, relative(root, outFile))
outFilePath(root, outPath, entrypoint) ==
  join(outPath, relative(root, outFile(entrypoint)))

\* A call of the dts plugin's on-end loop over the entrypoints, for a root
\* that is given or not and an output directory: the paths it writes, in
\* order. Not returned yet.
WriteCall(rootGiven, root, outdir, resolvedEntrypoints) ==
  [fn |-> "onEnd", rootGiven |-> rootGiven, root |-> root,
   outdir |-> outdir, resolvedEntrypoints |-> resolvedEntrypoints,
   returned |-> FALSE, result |-> <<>>]

\* Entrypoints with the same base name in two directories, with the same
\* name and another TypeScript extension, and with another name.
EntrypointFiles ==
  { << <<"p">>, <<"a", ".ts">> >>, << <<"p">>, <<"a", ".tsx">> >>,
    << <<"p">>, <<"lib">>, <<"a", ".ts">> >>, << <<"p">>, <<"b", ".ts">> >> }
\* One entrypoint, or two distinct ones in either order.
EntrypointLists ==
  {<<e>> : e \in EntrypointFiles}
    \cup {p \in EntrypointFiles \X EntrypointFiles : p[1] # p[2]}
OutDir == << <<"p">>, <<"dist">> >>

WriteCalls ==
  {WriteCall(FALSE, <<>>, OutDir, eps) : eps \in EntrypointLists}
    \cup {WriteCall(TRUE, root, OutDir, eps) :
            root \in {<< <<"p">> >>, << <<"p">>, <<"lib">> >>},
            eps \in EntrypointLists}

FunctionInit ==
  /\ content \in Project(WatchTemplates)
  /\ Constructed

\* tryResolveTs(basePath) runs to its return.
CallTryResolveTs(c) ==
  /\ probe = NoProbe
  /\ c \in ResolveCalls
  /\ probe' = [c EXCEPT !.returned = TRUE,
                        !.result = tryResolveTsOn(c.disk, c.basePath)]
  /\ UNCHANGED <<content, phase, pass, resolvedFilesMap, fileToEntrypoint,
                 handled, loaded, dtsMap, declarationMap, typeRefsMap, out,
                 written, watchVars, loads, config, effects>>

\* extractRequestedDts(dts, declarations, requestedMembers, type) runs to
\* its return, on the symbol table extractDeclarations gives for the text.
CallExtractRequestedDts(c) ==
  /\ probe = NoProbe
  /\ c \in ExtractCalls
  /\ probe' = [c EXCEPT !.returned = TRUE,
                        !.result = extractRequestedDts(
                                     c.dts, extractDeclarations(c.dts),
                                     c.requestedMembers, c.type)]
  /\ UNCHANGED <<content, phase, pass, resolvedFilesMap, fileToEntrypoint,
                 handled, loaded, dtsMap, declarationMap, typeRefsMap, out,
                 written, watchVars, loads, config, effects>>

\* dts(root, resolvedEntrypoints, ...): root defaults to the common ancestor
\* of the entrypoints; on-end writes one file for each entrypoint.
CallOnEndWrites(c) ==
  /\ probe = NoProbe
  /\ c \in WriteCalls
  /\ LET root == IF c.rootGiven THEN c.root
                 ELSE extractCommonAncestor(c.resolvedEntrypoints)
     IN probe' = [c EXCEPT !.returned = TRUE,
                           !.result = [i \in 1..Len(c.resolvedEntrypoints) |->
                                         outFilePath(root, c.outdir,
                                                     c.resolvedEntrypoints[i])]]
  /\ UNCHANGED <<content, phase, pass, resolvedFilesMap, fileToEntrypoint,
                 handled, loaded, dtsMap, declarationMap, typeRefsMap, out,
                 written, watchVars, loads, config, effects>>

FunctionNext ==
  \/ \E c \in ResolveCalls : CallTryResolveTs(c)
  \/ \E c \in ExtractCalls : CallExtractRequestedDts(c)
  \/ \E c \in WriteCalls : CallOnEndWrites(c)

FunctionSpec == FunctionInit /\ [][FunctionNext]_vars

\* ================================================================ claims
\* The file a delivered resolution event resolves to in the tracker.
TargetOf(f, spec) ==
  IF RE_TS(spec.segs) \/ RE_RELATIVE(spec)
  THEN tryResolveTs(IF isAbsolute(spec) THEN spec.segs
                    ELSE pathResolve(dirname(f), spec))
  ELSE NotFound

\* f imports g by a relative specifier that names the existing file g.
ImportsFile(f, g) ==
  \E spec \in Imports(f) :
     RE_RELATIVE(spec) /\ tryResolveTs(pathResolve(dirname(f), spec)) = g

RECURSIVE ReachFrom(_)
ReachFrom(S) ==
  LET T == S \cup {g \in Files : \E f \in S : ImportsFile(f, g)}
  IN IF T = S THEN S ELSE ReachFrom(T)

\* The existing files reachable from e through relative imports, e included.
Reach(e) == ReachFrom({e})

\* The event (importer f, a specifier that names g) has been handled.
HandledTo(f, g) == \E ev \in handled : ev[1] = f /\ TargetOf(ev[1], ev[2]) = g

\* The pass is past its start callbacks.
InPass == phase \in {"bundling", "done", "hung"}

\* Every resolution event of the pass has been handled.
AllResolved == (phase = "bundling" /\ Settled) \/ phase \in {"done", "hung"}

\* C1: for an entrypoint a and a chain of relative imports a -> b -> c of
\* existing files, once the events (a, b) and then (b, c) have been handled,
\* a's set contains a, b and c, and no file outside the files reachable from
\* a is in a's set (also when another entrypoint imports it).
C1_ChainInSet ==
  [][\A a \in Entrypoints : \A b, c \in Files :
       ( /\ phase = "bundling"
         /\ Cardinality({a, b, c}) = 3
         /\ HandledTo(a, b)
         /\ \E spec \in Imports(b) :
              /\ handled' = handled \cup {<<b, spec>>}
              /\ handled' # handled
              /\ TargetOf(b, spec) = c )
       => /\ {a, b, c} \subseteq resolvedFilesMap'[a]
          /\ \A d \in Files \ Reach(a) : d \notin resolvedFilesMap'[a]]_vars

\* C2: once every resolution event of the pass has been handled, the set
\* recorded for each entrypoint is exactly the set of files reachable from
\* it through relative imports.
C2_ExactReach ==
  AllResolved =>
    \A e \in Entrypoints :
       e \in DOMAIN resolvedFilesMap /\ resolvedFilesMap[e] = Reach(e)

\* C3: when entrypoints a and b both import m, m is in both sets and has a
\* recorded owner that is an entrypoint; a resolution event whose importer
\* is an owned file changes the set of that file's owner only, and puts the
\* resolved file there.
C3_SharedOneOwner ==
  [][ /\ \A a, b \in Entrypoints : \A m \in Files :
          (a # b /\ InPass' /\ HandledTo(a, m)' /\ HandledTo(b, m)')
          => /\ m \in resolvedFilesMap'[a]
             /\ m \in resolvedFilesMap'[b]
             /\ m \in DOMAIN fileToEntrypoint'
             /\ fileToEntrypoint'[m] \in Entrypoints
      /\ \A m \in Files : \A spec \in Imports(m) :
          ( /\ phase = "bundling"
            /\ handled' = handled \cup {<<m, spec>>}
            /\ handled' # handled
            /\ m \in DOMAIN fileToEntrypoint )
          => /\ \A e \in Entrypoints \ {fileToEntrypoint[m]} :
                  resolvedFilesMap'[e] = resolvedFilesMap[e]
             /\ TargetOf(m, spec) # NotFound
                  => TargetOf(m, spec) \in resolvedFilesMap'[fileToEntrypoint[m]]
             /\ fileToEntrypoint'[m] = fileToEntrypoint[m] ]_vars

\* A file shared by both entrypoints has had one of its own imports
\* resolved, into the set of its owner and not into the other set.
C3_Witness ==
  \E m, n \in Files \ Entrypoints :
     /\ phase = "bundling"
     /\ HandledTo(FA, m) /\ HandledTo(FB, m) /\ HandledTo(m, n)
     /\ n \in resolvedFilesMap[fileToEntrypoint[m]]
     /\ \E e \in Entrypoints : n \notin resolvedFilesMap[e]

\* C4: from the tracker's start callback on, in every state of the pass,
\* each entrypoint has an entry in the Dependency Map that contains it.
C4_SelfMembership ==
  (phase = "started" \/ InPass) =>
    \A e \in Entrypoints :
       e \in DOMAIN resolvedFilesMap /\ e \in resolvedFilesMap[e]

\* Right after the start callback, before any resolution event.
C4_Witness ==
  /\ phase = "started" /\ handled = {}
  /\ \A e \in Entrypoints : resolvedFilesMap[e] = {e}

\* C5: after the start callbacks of every pass (the first and each rebuild)
\* the tracker is exactly the seed state and the three declaration caches
\* are empty.
C5_StartResets ==
  /\ phase = "started" =>
       resolvedFilesMap = SeedMap /\ fileToEntrypoint = SeedOwner
  /\ (phase = "bundling" /\ handled = {} /\ loaded = {}) =>
       /\ resolvedFilesMap = SeedMap /\ fileToEntrypoint = SeedOwner
       /\ dtsMap = EmptyMap /\ declarationMap = EmptyMap
       /\ typeRefsMap = EmptyMap

\* A rebuild has run its start callbacks after a pass that resolved files
\* and wrote declarations.
C5_Witness ==
  /\ pass = 2 /\ phase = "bundling" /\ handled = {} /\ loaded = {}
  /\ out # EmptyMap

\* ---- vocabulary of the synthesis claims
\* The import/export-from statements and the declarations of a file's
\* isolated declaration.
StmtsOf(f) == {l \in Range(content[f]) : l.k = "stmt"}
DeclsOf(f) == {l \in Range(content[f]) : l.k = "decl"}
DeclNames(f) == {l.name : l \in DeclsOf(f)}
DeclOf(f, n) == CHOOSE l \in DeclsOf(f) : l.name = n

\* The statements of e that name the module m by a relative specifier.
StmtsTo(e, m) ==
  {l \in StmtsOf(e) : RE_RELATIVE(l.spec) /\ BundlerTarget(e, l.spec) = m}

\* The original names a set of statements asks for.
NamesOf(stmts) ==
  UNION {{l.clause.names[i].name : i \in 1..Len(l.clause.names)} : l \in stmts}

\* e refers to m by named re-exports only / by named imports only.
NamedOnly(e, m, type) ==
  /\ StmtsTo(e, m) # {}
  /\ \A l \in StmtsTo(e, m) : l.type = type /\ ~l.clause.star

\* Reference Closure: the names of m's symbol table reachable from the
\* requested names through the reference sets.
RECURSIVE ClosureFrom(_, _)
ClosureFrom(m, S) ==
  LET T == S \cup {r \in DeclNames(m) :
                     \E d \in DeclsOf(m) : d.name \in S /\ r \in d.refs \ {d.name}}
  IN IF T = S THEN S ELSE ClosureFrom(m, T)
Closure(m, requested) == ClosureFrom(m, requested \cap DeclNames(m))

\* The names the declarations of a file refer to.
RefsOf(f) == UNION {d.refs \ {d.name} : d \in DeclsOf(f)}

\* The output written for e has a declaration of the name n.
OutDecl(e, n) ==
  \E i \in 1..Len(out[e]) : out[e][i].k = "decl" /\ out[e][i].name = n

\* C6: when an entrypoint re-exports named members of a relative module,
\* its output has the declaration of every requested name of that module
\* and no declaration of the module outside the reference closure of the
\* requested names.
C6_ReexportPruned ==
  phase = "done" =>
    \A e \in Entrypoints : \A m \in Files \ {e} :
       NamedOnly(e, m, "export") =>
         /\ \A n \in NamesOf(StmtsTo(e, m)) \cap DeclNames(m) : OutDecl(e, n)
         /\ \A n \in DeclNames(m) \ Closure(m, NamesOf(StmtsTo(e, m))) :
               ~OutDecl(e, n)

\* C7: when an entrypoint re-exports x of a relative module and x refers to
\* y of that module, y not requested, the output has y's declaration without
\* its export keyword and x's declaration as it stands in the module.
C7_ReferencedIncluded ==
  phase = "done" =>
    \A e \in Entrypoints : \A m \in Files \ {e} :
       NamedOnly(e, m, "export") =>
         \A x \in NamesOf(StmtsTo(e, m)) \cap DeclNames(m) :
            \A y \in (DeclOf(m, x).refs \cap DeclNames(m))
                      \ (NamesOf(StmtsTo(e, m)) \cup {x}) :
               /\ StripExport(DeclOf(m, y)) \in Range(out[e])
               /\ DeclOf(m, y) \notin Range(out[e])
               /\ DeclOf(m, x) \in Range(out[e])

\* C8: for named imports from a relative module, the output has a
\* declaration of the module exactly when it is in the reference closure of
\* the imported members that the importing file's declarations refer to,
\* and every such declaration is there without its export keyword.
C8_ImportFilter ==
  phase = "done" =>
    \A e \in Entrypoints : \A m \in Files \ {e} :
       NamedOnly(e, m, "import") =>
         \A n \in DeclNames(m) :
            /\ OutDecl(e, n) <=>
                 n \in Closure(m, NamesOf(StmtsTo(e, m)) \cap RefsOf(e))
            /\ OutDecl(e, n) =>
                 /\ StripExport(DeclOf(m, n)) \in Range(out[e])
                 /\ \A i \in 1..Len(out[e]) :
                      out[e][i].name = n => ~out[e][i].exported

\* C9: a name that a dependency m re-exports from a further module h is in
\* the entrypoint's output only if it is among the names the entrypoint
\* requested of m or in their reference closure.
C9_NestedReexport ==
  phase = "done" =>
    \A e \in Entrypoints : \A m, h \in Files \ {e} :
       (m # h /\ NamedOnly(e, m, "export") /\ StmtsTo(e, h) = {}
          /\ NamedOnly(m, h, "export")) =>
         \A b \in NamesOf(StmtsTo(m, h)) \cap DeclNames(h) :
            OutDecl(e, b) =>
              b \in NamesOf(StmtsTo(e, m)) \cup Closure(m, NamesOf(StmtsTo(e, m)))

\* C10: every import/export-from statement of the entrypoint's declaration
\* whose specifier does not start with ./ or ../ is in the output unchanged.
C10_ExternalKept ==
  phase = "done" =>
    \A e \in Entrypoints : \A l \in StmtsOf(e) :
       ~RE_RELATIVE(l.spec) => l \in Range(out[e])

\* ---- build-end claims
\* The on-end callback of the synthesizer has run in this pass (it returned,
\* or it is still in the loop of one entrypoint).
AtBuildEnd == phase \in {"done", "hung"}

\* The path the loop looks a statement of e's text up under.
ModulePath(e, l) == pathResolve(dirname(e), l.spec)

\* Position i of the output is the path comment of p, followed by line x.
BlockStarts(e, p, x) ==
  \E i \in 1..(Len(out[e]) - 1) :
     out[e][i] = PathComment(p) /\ out[e][i + 1] = x

\* C11: when synthesis for an entrypoint has finished, no line of its output
\* is an import/export-from statement with a relative module path, and every
\* relative statement of the entrypoint's declaration has a block (inlined
\* content or the placeholder) in the output.
C11_NoRelativeLeft ==
  \A e \in written :
     /\ \A i \in 1..Len(out[e]) :
          out[e][i].k = "stmt" => ~RE_RELATIVE(out[e][i].spec)
     /\ \A l \in StmtsOf(e) :
          RE_RELATIVE(l.spec) => PathComment(ModulePath(e, l)) \in Range(out[e])

\* An entrypoint's output holds the blocks of a dependency and of that
\* dependency's own dependency.
C11_Witness ==
  /\ phase = "done" /\ FA \in written
  /\ PathComment(FM) \in Range(out[FA])
  /\ PathComment(FN) \in Range(out[FA])
  /\ OutDecl(FA, "bar")

C13_EmptyEntrypointWritten ==
  AtBuildEnd =>
    /\ \A e \in Entrypoints : content[e] = <<>> => (e \in written /\ out[e] = <<>>)
    /\ Entrypoints \subseteq written

\* A statement of e's declaration names a relative module that has no
\* captured declaration in this pass.
Uncaptured(e, l) ==
  /\ l \in StmtsOf(e) /\ RE_RELATIVE(l.spec)
  /\ LET m == BundlerTarget(e, l.spec)
     IN m = NotFound \/ m \notin DOMAIN dtsMap

\* C14: when an entrypoint's declaration refers to a relative module whose
\* declaration was not captured in this pass, at build-end the entrypoint's
\* output file is written with the placeholder comment as the content of
\* that module's block, and the output file of every other entrypoint is
\* written too.
C14_MissingModulePlaceholder ==
  AtBuildEnd =>
    \A e \in Entrypoints : \A l \in StmtsOf(e) :
       Uncaptured(e, l) =>
         /\ e \in written
         /\ BlockStarts(e, ModulePath(e, l), MISSING_MODULE_DTS)
         /\ Entrypoints \subseteq written

\* C15: a relative statement whose specifier omits the extension is removed
\* from the output and the declarations it requests of the file it resolves
\* to are in the output.
C15_ExtensionlessInlined ==
  phase = "done" =>
    \A e \in Entrypoints : \A l \in StmtsOf(e) :
       ( /\ RE_RELATIVE(l.spec) /\ ~RE_TS(l.spec.segs)
         /\ BundlerTarget(e, l.spec) # NotFound
         /\ l.type = "export" /\ ~l.clause.star ) =>
         /\ l \notin Range(out[e])
         /\ \A n \in NamesOf({l}) \cap DeclNames(BundlerTarget(e, l.spec)) :
               OutDecl(e, n)

\* The alias names of a statement's members.
AliasesOf(l) ==
  {l.clause.names[i].as : i \in {j \in 1..Len(l.clause.names) :
                                   l.clause.names[j].as # ""}}

\* The output of e exposes the name a: an exported declaration of that name,
\* or an export clause with that alias.
Exposes(e, a) ==
  \E i \in 1..Len(out[e]) :
     \/ out[e][i].k = "decl" /\ out[e][i].exported /\ out[e][i].name = a
     \/ out[e][i].type = "export" /\ a \in AliasesOf(out[e][i])

\* C16: for a re-export with an alias from a relative module, the output of
\* the entrypoint exposes the member under the alias name.
C16_AliasExposed ==
  phase = "done" =>
    \A e \in Entrypoints : \A l \in StmtsOf(e) :
       (l.type = "export" /\ RE_RELATIVE(l.spec)
          /\ BundlerTarget(e, l.spec) # NotFound) =>
         \A i \in 1..Len(l.clause.names) :
            (l.clause.names[i].as # ""
               /\ l.clause.names[i].name \in DeclNames(BundlerTarget(e, l.spec)))
            => Exposes(e, l.clause.names[i].as)

\* ---- watch claims
\* A named notification ran the listener: debounceTimer holds a new handle.
NotifyStep == debounceTimer' # debounceTimer
\* A timer fired: a handle left the armed set and no notification ran.
FireStep == armed' # armed /\ debounceTimer' = debounceTimer

\* C17: with no rebuild pending, notifications that each arrive before the
\* timer of the previous one fired lead to exactly one invocation of the
\* rebuild callback: every notification cancels the outstanding timer and
\* sets a new one without invoking anything, at most one timer is
\* outstanding at any time, and the firing of that timer invokes the
\* callback once and leaves no timer behind.
C17_DebounceOnce ==
  [][ /\ Cardinality(armed') <= 1
      /\ NotifyStep =>
           /\ armed' = {debounceTimer'}
           /\ debounceTimer' \notin armed
           /\ inFlight' = inFlight /\ pass' = pass /\ pending' = pending
      /\ (FireStep /\ ~pending) =>
           /\ inFlight' = inFlight + 1
           /\ pass' = pass + 1
           /\ armed' = {} ]_vars

\* A window of several notifications has ended in one rebuild.
C17_Witness ==
  /\ trigger.burst >= 2 /\ trigger.outcome = "invoked"
  /\ pass = 2 /\ inFlight = 1 /\ phase = "idle" /\ armed = {}

\* C18: at most one rebuild callback is in flight; a timer that fires
\* while a rebuild is pending invokes nothing; a rebuild starts only by a
\* timer firing with pending false, so the completion of the in-flight
\* rebuild starts none for a trigger that was dropped.
C18_OneInFlight ==
  [][ /\ inFlight' <= 1
      /\ (FireStep /\ pending) =>
           /\ inFlight' = inFlight /\ pass' = pass /\ phase' = phase
           /\ content' = content /\ pending' = pending
      /\ inFlight' > inFlight => (FireStep /\ ~pending)
      /\ inFlight' < inFlight =>
           (pass' = pass /\ phase' = "resting" /\ armed' = armed) ]_vars

\* A trigger was dropped during a rebuild, and the rebuild has completed
\* with nothing started for it.
C18_Witness ==
  /\ trigger.outcome = "dropped" /\ armed = {}
  /\ pass = 2 /\ phase = "resting" /\ ~pending /\ inFlight = 0

\* C19: after the build-end callback of every successful pass the paths
\* with an open watch are exactly the union of the entrypoints' sets, one
\* open watch each.
C19_WatchesEqualUnion ==
  (phase \in {"watching", "resting"} /\ BuildSucceeds) =>
    /\ watcherMap = resolvedModules
    /\ \A f \in Files : opened[f] = IF f \in resolvedModules THEN 1 ELSE 0

\* The build-end callback of a successful rebuild closed the watch of a
\* file that left the union and attached one for a file that joined it.
C19_Witness ==
  /\ phase = "watching" /\ pass >= 2 /\ BuildSucceeds
  /\ refresh.closed # {} /\ refresh.attached # {}

\* C20: the build-end callback of a failed pass leaves the set of open
\* watches as it was.
C20_FailedPassKeepsWatches ==
  [][ (phase = "done" /\ phase' = "watching" /\ ~BuildSucceeds) =>
        (opened' = opened /\ watcherMap' = watcherMap) ]_vars

\* C21: for a base path without a recognized extension tryResolveTs returns
\* the first existing path of base.ts, base.tsx, base.mts, base.cts,
\* base/index.ts, base/index.tsx, base/index.mts, base/index.cts, and
\* not-found when none of them exists.
C21_Order(base) ==
  LET dir == Front(base)
      name == Last(base)
  IN << dir \o <<name \o <<".ts">>>>, dir \o <<name \o <<".tsx">>>>,
        dir \o <<name \o <<".mts">>>>, dir \o <<name \o <<".cts">>>>,
        base \o << <<"index", ".ts">> >>, base \o << <<"index", ".tsx">> >>,
        base \o << <<"index", ".mts">> >>, base \o << <<"index", ".cts">> >> >>

C21_Returned ==
  /\ probe.fn = "tryResolveTs"
  /\ probe.returned
  /\ ~RE_TS(probe.basePath)

C21_FirstCandidateWins ==
  C21_Returned =>
    LET order == C21_Order(probe.basePath)
    IN /\ \A i \in 1..8 :
            (probe.result = order[i]) <=>
              (/\ order[i] \in probe.disk
               /\ \A j \in 1..(i - 1) : order[j] \notin probe.disk)
       /\ (probe.result = NotFound) <=> (\A i \in 1..8 : order[i] \notin probe.disk)

\* base.ts, base.tsx and base/index.ts all exist and base.ts is returned.
C21_Witness ==
  /\ C21_Returned
  /\ LET order == C21_Order(probe.basePath)
     IN /\ {order[1], order[2], order[5]} \subseteq probe.disk
        /\ probe.result = order[1]

\* C22: when no output directory is configured the synthesizer registers
\* no start, load or end handler, captures no declaration, reads no file
\* and writes no file, in the initial pass and in every rebuild.
C22_NoOutdirNoWork ==
  ~config.outdir =>
    /\ dtsHandlers = {}
    /\ dtsMap = EmptyMap
    /\ declarationMap = EmptyMap
    /\ typeRefsMap = EmptyMap
    /\ \A f \in Files : loads[f].reads = 0 /\ loads[f].reading = 0
    /\ out = EmptyMap
    /\ written = {}

\* A rebuild without outdir has ended after the bundler loaded both
\* entrypoints and a module of theirs.
C22_Witness ==
  /\ ~config.outdir
  /\ pass = 2
  /\ phase = "done"
  /\ Entrypoints \subseteq loaded
  /\ FM \in loaded
  /\ FM \in resolvedModules

\* C23: if an entrypoint path does not exist or is a directory, build()
\* rejects with an error that names such a path, and has not removed the
\* output directory, registered a plugin, called the bundler or produced a
\* file.
C23_BadEntries ==
  {config.entrypoints[i] : i \in 1..Len(config.entrypoints)} \ Files

C24_ReadAtMostOnce ==
  \A f \in Files : loads[f].reads <= 1

\* The resolution event of importer f and specifier spec is delivered in
\* this step.
EventStep(f, spec) ==
  /\ <<f, spec>> \notin handled
  /\ <<f, spec>> \in handled'

TrackerUnchanged ==
  /\ resolvedFilesMap' = resolvedFilesMap
  /\ fileToEntrypoint' = fileToEntrypoint

\* C25: a resolution event whose specifier does not begin with ./ or ../
\* leaves the Dependency Map and the ownership table unchanged: package
\* names, absolute paths, bare paths that end in a TypeScript extension.
C25_NonRelativeIgnored ==
  [][\A f \in Files : \A spec \in Imports(f) :
       (EventStep(f, spec) /\ ~RE_RELATIVE(spec)) => TrackerUnchanged]_vars

\* No file exists at the path the specifier names from the importer's
\* directory, nor at any of the path's candidates.
C26_NoFile(f, spec) ==
  LET path == IF isAbsolute(spec) THEN spec.segs
              ELSE pathResolve(dirname(f), spec)
  IN \A g \in Files : g # path /\ g \notin Range(C21_Order(path))

\* C26: a resolution event leaves the Dependency Map and the ownership
\* table unchanged and raises no error, the build going on, when its
\* importer is missing or has no owner, and when its importer is owned but
\* the specifier resolves to no existing file.
C26_SilentNoOp ==
  [][\A ev \in handled' \ handled :
       (\/ ev[1] = <<>>
        \/ ev[1] \notin DOMAIN fileToEntrypoint
        \/ C26_NoFile(ev[1], ev[2]))
       => /\ TrackerUnchanged
          /\ phase' = "bundling"
          /\ effects' = effects]_vars

\* A pass has ended in which an event without importer, an event whose
\* importer j.js has no owner, and an event of the owned b.ts for
\* ./gone.ts were delivered.
C26_Witness ==
  /\ phase = "done"
  /\ << <<>>, Abs(FA) >> \in handled
  /\ <<FJ, Here(<<"m", ".ts">>)>> \in handled
  /\ FJ \notin DOMAIN fileToEntrypoint
  /\ <<FB, Here(<<"gone", ".ts">>)>> \in handled
  /\ FB \in DOMAIN fileToEntrypoint
  /\ resolvedFilesMap[FB] = {FB}

\* Every entrypoint owns itself and every recorded owner is an entrypoint.
C27_Owners ==
  (phase = "started" \/ InPass) =>
    /\ \A e \in Entrypoints :
          e \in DOMAIN fileToEntrypoint /\ fileToEntrypoint[e] = e
    /\ \A f \in DOMAIN fileToEntrypoint : fileToEntrypoint[f] \in Entrypoints

\* C27: within one pass the owner recorded for a file never changes once
\* it is set; a file gets its owner in the first resolution event that
\* resolves to it, and the owner is the owner of that event's importer;
\* every entrypoint owns itself and every recorded owner is an entrypoint.
C27_OwnerNeverChanges ==
  [][ /\ C27_Owners /\ C27_Owners'
      /\ phase # "idle" =>
           \A f \in DOMAIN fileToEntrypoint :
              /\ f \in DOMAIN fileToEntrypoint'
              /\ fileToEntrypoint'[f] = fileToEntrypoint[f]
      /\ \A ev \in handled' \ handled :
           \A g \in DOMAIN fileToEntrypoint' \ DOMAIN fileToEntrypoint :
              /\ g = TargetOf(ev[1], ev[2])
              /\ fileToEntrypoint'[g] = fileToEntrypoint[ev[1]] ]_vars

\* In a rebuild m.ts was resolved from a.ts and from b.ts, the event of
\* b.ts first: it is in both sets and b.ts owns it.
C27_Witness ==
  /\ phase = "done"
  /\ HandledTo(FA, FM) /\ HandledTo(FB, FM)
  /\ FM \in resolvedFilesMap[FA] \cap resolvedFilesMap[FB]
  /\ fileToEntrypoint[FM] = FB
  /\ pass = 2

\* The names the module's text declares, and the names one of them refers to.
C28_Table == {l.name : l \in {x \in Range(probe.dts) : x.k = "decl"}}
C28_Refs(n) == UNION {l.refs : l \in {x \in Range(probe.dts) : x.k = "decl" /\ x.name = n}}

\* S holds every requested name of the table and, with a name, every name
\* of the table it refers to.
C28_Closed(S) ==
  /\ Range(probe.requestedMembers) \cap C28_Table \subseteq S
  /\ \A n \in S : C28_Refs(n) \cap C28_Table \subseteq S

C28_Least ==
  CHOOSE S \in SUBSET C28_Table :
    C28_Closed(S) /\ \A T \in SUBSET C28_Table : C28_Closed(T) => S \subseteq T

C28_Emitted == {l.name : l \in {x \in Range(probe.result) : x.k = "decl"}}

\* C28: for a named request the declarations emitted from a module are the
\* least set that holds every requested name of the symbol table and is
\* closed under the table's reference sets restricted to the table; names
\* absent from the table are skipped, and the call returns when the
\* declarations refer to each other in a cycle.
C28_LeastClosedSet ==
  (probe.fn = "extractRequestedDts" /\ "*" \notin Range(probe.requestedMembers)) =>
    /\ probe.returned
    /\ C28_Emitted = C28_Least

\* A and B refer to each other, A also to the undeclared Z; A and Z are
\* requested and exactly A and B are emitted.
C28_Witness ==
  /\ probe.fn = "extractRequestedDts"
  /\ probe.returned
  /\ probe.requestedMembers = <<"A", "Z">>
  /\ C28_Refs("A") = {"B", "Z"}
  /\ "A" \in C28_Refs("B")
  /\ C28_Emitted = {"A", "B"}

\* The relative wildcard statements of the given type in e's declaration
\* whose module was captured in this pass.
C29_Wildcards(e, type) ==
  {l \in StmtsOf(e) :
     /\ l.type = type
     /\ l.clause.star
     /\ RE_RELATIVE(l.spec)
     /\ ModulePath(e, l) \in DOMAIN dtsMap}

\* Every declaration of the module's captured text is in e's output as it
\* was captured, export keyword included.
C29_Verbatim(e, m) ==
  \A x \in Range(dtsMap[m]) : x.k = "decl" => x \in Range(out[e])

\* C29: for every relative statement that requests the wildcard *, import
\* or re-export, the module's entire captured declaration text is inlined
\* unchanged: no declaration removed, no export keyword stripped.
C29_WildcardVerbatim ==
  (phase = "done" /\ config.outdir) =>
    \A e \in Entrypoints : \A type \in {"import", "export"} :
       \A l \in C29_Wildcards(e, type) : C29_Verbatim(e, ModulePath(e, l))

\* C30: a relative line that came from an inlined dependency in another
\* directory than the entrypoint is resolved against the dependency's
\* directory: the declarations it requests of the dependency's own sibling
\* are in the entrypoint's output.
C30_ResolvedFromOwnDirectory ==
  (phase = "done" /\ config.outdir) =>
    \A e \in Entrypoints : \A l \in StmtsOf(e) :
       ( /\ l.type = "export" /\ RE_RELATIVE(l.spec) /\ RE_TS(l.spec.segs)
         /\ ModulePath(e, l) \in DOMAIN dtsMap
         /\ dirname(ModulePath(e, l)) # dirname(e) ) =>
         \A k \in {x \in Range(dtsMap[ModulePath(e, l)]) :
                     /\ x.k = "stmt" /\ x.type = "export" /\ ~x.clause.star
                     /\ RE_RELATIVE(x.spec) /\ RE_TS(x.spec.segs)} :
            LET sibling == ModulePath(ModulePath(e, l), k)
            IN sibling \in DOMAIN dtsMap =>
                 \A n \in NamesOf({k}) \cap DeclNames(sibling) : OutDecl(e, n)

\* The captured text of m does not parse.
C31_Unparsed(m) ==
  /\ m \in DOMAIN dtsMap
  /\ \E x \in Range(dtsMap[m]) : x.k = "other" /\ x.type = "error"

\* C31: when the declaration text of a module fails to parse, the module
\* gets an empty symbol table, the build does not fail, and for a named
\* request the module's whole declaration text is kept in the entrypoint's
\* output, none of its lines pruned.
C31_UnparsedKeptWhole ==
  (phase = "done" /\ config.outdir) =>
    \A e \in Entrypoints : \A l \in StmtsOf(e) :
       ( /\ l.type = "export" /\ ~l.clause.star
         /\ RE_RELATIVE(l.spec) /\ RE_TS(l.spec.segs)
         /\ C31_Unparsed(ModulePath(e, l)) ) =>
         /\ declarationMap[ModulePath(e, l)] = <<>>
         /\ e \in written
         /\ \A x \in Range(dtsMap[ModulePath(e, l)]) : x \in Range(out[e])

\* C32: a change notification for a path that is not in the union of the
\* entrypoints' sets at the time of the notification starts no debounce
\* timer, also when the path was in the union when its watch was attached:
\* every notification that starts a timer is for a path of the union.
C32_StaleNotificationIgnored ==
  [][NotifyStep => trigger'.path \in resolvedModules]_vars

\* C33: whenever an in-flight rebuild callback completes, resolved or
\* rejected, the pending flag is cleared, and a debounce timer that fires
\* while no rebuild is in flight invokes the rebuild callback.
C33_CompletionClearsPending ==
  [][ /\ inFlight' < inFlight => ~pending'
      /\ (FireStep /\ inFlight = 0) => trigger'.outcome = "invoked" ]_vars

\* C34: per-entrypoint synthesis terminates for every finite set of
\* captured modules, also when relative modules re-export from each other
\* in a cycle and when a module is referenced by several statements: the
\* build-end callback of no pass is left in its loop.
C34_SynthesisTerminates ==
  phase # "hung"

\* The tracker after the resolution events of the current import graph
\* were delivered in one fixed order, each file's imports after an event
\* that discovered the file, from the tracker t with the events in done
\* delivered already.
RECURSIVE C35_InFixedOrder(_, _)
C35_InFixedOrder(t, done) ==
  LET found   == Entrypoints \cup
                   ({BundlerTarget(ev[1], ev[2]) : ev \in done} \ {NotFound})
      waiting == {ev \in UNION {{<<f, spec>> : spec \in Imports(f)} : f \in found} :
                    ev \notin done}
  IN IF waiting = {} THEN t
     ELSE LET ev == CHOOSE x \in waiting : TRUE
          IN C35_InFixedOrder(dispatchResolve(t, ev[1], ev[2]), done \cup {ev})

\* C35: for a fixed import graph and entrypoint list the Dependency Map at
\* the end of the resolution phase is the same for every order in which the
\* bundler delivers the resolution events: it is the map that one fixed
\* order gives.
C35_OrderIndependent ==
  phase = "done" =>
    resolvedFilesMap = C35_InFixedOrder(Tracker(SeedMap, SeedOwner), {}).map

\* The positions of e's output that hold the declaration x, with or
\* without its export keyword.
C36_Copies(e, x) ==
  {i \in 1..Len(out[e]) : StripExport(out[e][i]) = StripExport(x)}

\* C36: the text of each declaration of a module appears at most once in
\* an entrypoint's output, also when the entrypoint refers to the module in
\* several statements whose closures overlap.
C36_DeclaredOnce ==
  (phase = "done" /\ config.outdir) =>
    \A e \in Entrypoints : \A m \in DOMAIN dtsMap :
       \A x \in {l \in Range(dtsMap[m]) : l.k = "decl"} :
          e \in DOMAIN out => Cardinality(C36_Copies(e, x)) <= 1

\* The union of the reference sets of the declarations in f's symbol table.
C37_TableRefs(f) ==
  UNION {declarationMap[f][i].typeRefs : i \in 1..Len(declarationMap[f])}

\* C37: after a file has been captured, the reference set recorded for it
\* is the union of the reference sets of the declarations in its symbol
\* table, and the three caches have the same key set.
C37_ModuleRefsAreUnion ==
  /\ DOMAIN dtsMap = DOMAIN declarationMap
  /\ DOMAIN dtsMap = DOMAIN typeRefsMap
  /\ \A f \in DOMAIN dtsMap : typeRefsMap[f] = C37_TableRefs(f)

\* C38: two distinct entrypoints of one build are never written to the
\* same declaration output path, whether they share a base name in
\* different directories or differ only in their source extension.
C38_DistinctOutputPaths ==
  (probe.fn = "onEnd" /\ probe.returned) =>
    \A i, j \in 1..Len(probe.resolvedEntrypoints) :
      i # j => probe.result[i] # probe.result[j]

\* C39: no two bundler passes overlap in watch mode: a pass starts only
\* after the on-end callbacks of the previous pass have finished (the watch
\* refresh, the last of them, has run), and a start callback never clears
\* the Dependency Map or the declaration caches between the loads of a pass
\* and the end of its watch refresh.
C39_OnEndRunning == phase \in {"bundling", "done"}
====
